---- MODULE Spec2Model ----
(***************************************************************************)
(* PomodoroPal background service worker                                   *)
(* (src/extension/background/background.js): the timer controller, its     *)
(* persisted snapshot, the countdown alarm and the worker's lifecycle.      *)
(*                                                                         *)
(* Function declarations are hoisted in JavaScript, so of the two           *)
(* declarations of startTimer, pauseTimer and completeTimer the later one   *)
(* (lines 371, 387, 404) is the one every caller runs.                      *)
(*                                                                         *)
(* Time: the clock `now` counts units of 1000/Resolution milliseconds, so   *)
(* the source's division by 1000 is a division by Resolution here; a minute *)
(* has SecPerMin seconds where the source multiplies by 60.                 *)
(*                                                                         *)
(* The toolbar badge and the console log only display the state and are    *)
(* left out.                                                                *)
(*                                                                         *)
(* The site-blocking engine reads the timer and never writes it.  Spec is   *)
(* the timer with the engine at rest: the handlers' calls of                *)
(* updateBlockingRules are counted in `recomputes`.  SpecRules is the       *)
(* engine: every counted call starts a recomputation, whose callbacks run   *)
(* interleaved with the events that follow.  SpecReport is the timer with   *)
(* what its collaborators deliver late: the outcome of each POST and an     *)
(* alarm event that was dispatched before the alarm was cleared.            *)
(* SpecPayload is the timer with SWITCH_MODE messages of any payload.       *)
(***************************************************************************)
EXTENDS Integers, Sequences, FiniteSets, TLC

VARIABLES
  timerState,   \* the in-memory snapshot (global object of the worker)
  storage,      \* chrome.storage.local key 'timerState': <<>> unset, <<snapshot>> set
  alarm,        \* TRUE iff the chrome alarm 'pomodoroTimer' exists
  now,          \* wall clock, Date.now()
  pendingGet,   \* <<>>, or <<[result, raced]>>: onInstalled's storage.get has
                \* read `result` (the value of `storage` then), its callback
                \* has not run yet and `raced` events were handled meanwhile
  event,        \* the event handled by the last step
  response,     \* <<>> or <<value>> passed to sendResponse by the last step
  emitted,      \* session records POSTed by the last step
  issued,       \* for each of them, the worker's state when fetch was called
  notified,     \* notifications created by the last step
  completes,    \* number of completeTimer calls in the last step
  writes,       \* number of chrome.storage.local.set calls in the last step
  recomputes,   \* number of updateBlockingRules calls in the last step
  run,          \* history: <<>> or <<[after, ticks, fresh]>>, see RunStarted
  config,       \* chrome.storage.local keys blockingEnabled, blockDuringWork
                \* and blockedSites: each <<>> unset or <<value>>
  rules,        \* the dynamic rules installed in declarativeNetRequest
  pending,      \* the recomputations under way, in the order they were
                \* issued: each waits for its settings read or its rules read
  inflight      \* number of POSTs whose outcome has not arrived

vars == <<timerState, storage, alarm, now, pendingGet, event, response,
          emitted, issued, notified, completes, writes, recomputes, run,
          config, rules, pending, inflight>>

----------------------------------------------------------------------------
\* Bounds

\* seconds per minute (60 in the source)
SecPerMin == 1

\* clock units per second (1000 in the source)
Resolution == 2

\* the clock advances unit by unit up to MaxNow
MaxNow == 3

\* events handled between a storage read and its callback
MaxRace == 1

\* recomputations of the blocking rules under way at once
MaxPending == 1

\* POSTs awaiting their outcome at once
MaxInFlight == 1

\* recomputations under way at once where they may overlap
MaxOverlap == 2

----------------------------------------------------------------------------
\* Program constants and values

Null == -1

\* the number NaN, in a field that holds numbers
NaN == -2

\* the value undefined where a number is expected, and where a mode is
undefinedNumber == -3
undefined == "undefined"

Modes == {"pomodoro", "shortBreak", "longBreak"}

TIMER_CONFIG == [pomodoro |-> 25, shortBreak |-> 5, longBreak |-> 15]

DefaultState ==
  [mode |-> "pomodoro",
   timeRemaining |-> TIMER_CONFIG.pomodoro * SecPerMin,
   isRunning |-> FALSE,
   startedAt |-> Null,
   pausedAt |-> Null]

\* JavaScript truthiness of a timestamp field (null and 0 are falsy)
Truthy(x) == x # Null /\ x # 0

\* new Date(ms).toISOString(); new Date(null) is the epoch
toISOString(ms) == <<"ISO", IF ms = Null THEN 0 ELSE ms>>

\* Math.max
Max(a, b) == IF a = NaN \/ b = NaN THEN NaN ELSE IF a >= b THEN a ELSE b

\* TIMER_CONFIG[mode]: undefined for a key the object does not have
ConfigOf(mode) ==
  IF mode \in DOMAIN TIMER_CONFIG THEN TIMER_CONFIG[mode] ELSE undefinedNumber

\* a * b, a - b, a <= b and a > b on numbers: undefined converts to NaN,
\* NaN makes the result NaN and every comparison false
Times(a, b) ==
  IF a \in {NaN, undefinedNumber} \/ b \in {NaN, undefinedNumber}
  THEN NaN ELSE a * b

Minus(a, b) ==
  IF a \in {NaN, undefinedNumber} \/ b \in {NaN, undefinedNumber}
  THEN NaN ELSE a - b

Leq(a, b) == a # NaN /\ b # NaN /\ a <= b

Gt(a, b) == a # NaN /\ b # NaN /\ a > b

\* { ...a, ...b }
Spread(a, b) ==
  [f \in (DOMAIN a) \cup (DOMAIN b) |-> IF f \in DOMAIN b THEN b[f] ELSE a[f]]

\* the sites updateBlockingRules falls back to
DefaultSites ==
  <<"facebook.com", "x.com", "instagram.com", "youtube.com", "reddit.com",
    "tiktok.com">>

\* the sites the settings page falls back to
DEFAULT_BLOCKED_SITES ==
  <<"facebook.com", "instagram.com", "reddit.com", "tiktok.com", "x.com",
    "youtube.com">>

\* the sites typed into the settings page
SiteInputs == {"example.com"}

\* result.key !== undefined ? result.key : fallback, and result.key || fallback
OrDefault(field, fallback) == IF field = <<>> THEN fallback ELSE field[1]

messages ==
  [pomodoro |-> "Work session completed! You deserve a break.",
   shortBreak |-> "Break finished! Ready to focus again?",
   longBreak |-> "Long break finished! Ready for another session?"]

\* messages[mode] || 'Timer completed!'
MessageOf(mode) ==
  IF mode \in DOMAIN messages THEN messages[mode] ELSE "Timer completed!"

\* what chrome.storage keeps of a snapshot: a field that is undefined has
\* no stored form, and NaN is not kept as a number (it is left out here; a
\* null in its place would not be the number either)
Stored(ts) ==
  [f \in {g \in DOMAIN ts :
            /\ ~(g = "mode" /\ ts.mode = undefined)
            /\ ~(g = "timeRemaining" /\ ts.timeRemaining = NaN)} |-> ts[f]]

----------------------------------------------------------------------------
\* The handlers, as functions of the worker's world w:
\*   w.ts the snapshot, w.storage, w.alarm, and what the event has put out
\*   so far (w.response, w.emitted, w.issued, w.notified, w.completes,
\*   w.writes, w.recomputes).
\* t is the value Date.now() returns during the event.

\* chrome.storage.local.set({ timerState }); w is bound once, so that a
\* chain of handlers is evaluated once and not once per use of w
saveState(w) ==
  CHOOSE saved \in {[v EXCEPT !.storage = <<Stored(v.ts)>>, !.writes = @ + 1] :
                      v \in {w}} : TRUE

\* the async function runs up to its first await: fetch is called, the
\* POST is issued, and the caller goes on; the outcome is only logged
saveSessionToBackend(w, sessionData) ==
  [w EXCEPT !.emitted = Append(@, sessionData),
            !.issued = Append(@, [ts |-> w.ts, storage |-> w.storage,
                                  alarm |-> w.alarm])]

\* a failed report that puts the timer back into the run
saveSessionToBackendSettled_reverts(w, outcome) ==
  IF outcome = "ok" THEN w
  ELSE saveState([w EXCEPT !.ts.isRunning = TRUE, !.alarm = TRUE])

\* saveSessionToBackend after `await fetch`: the response body or the error
\* is logged, nothing else
saveSessionToBackendSettled(w, outcome) ==
  w

\* switchMode that forgets to load the new mode's duration
switchMode_keepsTime(w, newMode) ==
  IF w.ts.isRunning THEN w
  ELSE saveState([w EXCEPT !.ts.mode = newMode,
                           !.ts.startedAt = Null,
                           !.ts.pausedAt = Null])

\* switchMode that does not persist the snapshot
switchMode_noSave(w, newMode) ==
  IF w.ts.isRunning THEN w
  ELSE [w EXCEPT !.ts.mode = newMode,
                 !.ts.timeRemaining = TIMER_CONFIG[newMode] * SecPerMin,
                 !.ts.startedAt = Null,
                 !.ts.pausedAt = Null]

\* switchMode without its guard
switchMode_noGuard(w, newMode) ==
  saveState([w EXCEPT !.ts.mode = newMode,
                      !.ts.timeRemaining = TIMER_CONFIG[newMode] * SecPerMin,
                      !.ts.startedAt = Null,
                      !.ts.pausedAt = Null])

\* the call issues the read of the blocking settings
updateBlockingRules(w) ==
  [w EXCEPT !.recomputes = @ + 1]

switchMode(w, newMode) ==
  IF w.ts.isRunning THEN w
  ELSE saveState([w EXCEPT !.ts.mode = newMode,
                           !.ts.timeRemaining = Times(ConfigOf(newMode), SecPerMin),
                           !.ts.startedAt = Null,
                           !.ts.pausedAt = Null])

\* startTimer that does not record the start time
startTimer_noTimestamp(w, t) ==
  IF w.ts.isRunning THEN w
  ELSE saveState(updateBlockingRules([w EXCEPT !.ts.isRunning = TRUE,
                                               !.alarm = TRUE]))

\* startTimer without its guard
startTimer_noGuard(w, t) ==
  saveState(updateBlockingRules([w EXCEPT !.ts.isRunning = TRUE,
                                          !.ts.startedAt = t,
                                          !.alarm = TRUE]))

startTimer(w, t) ==
  IF w.ts.isRunning THEN w
  ELSE saveState(updateBlockingRules([w EXCEPT !.ts.isRunning = TRUE,
                                               !.ts.startedAt = t,
                                               !.alarm = TRUE]))

\* pauseTimer that clears startedAt
pauseTimer_clearsStart(w, t) ==
  IF ~w.ts.isRunning THEN w
  ELSE saveState(updateBlockingRules([w EXCEPT !.ts.isRunning = FALSE,
                                               !.ts.startedAt = Null,
                                               !.ts.pausedAt = t,
                                               !.alarm = FALSE]))

\* pauseTimer without its guard
pauseTimer_noGuard(w, t) ==
  saveState(updateBlockingRules([w EXCEPT !.ts.isRunning = FALSE,
                                          !.ts.pausedAt = t,
                                          !.alarm = FALSE]))

\* pauseTimer that restores the full duration, as resetTimer does
pauseTimer_resetsTime(w, t) ==
  IF ~w.ts.isRunning THEN w
  ELSE saveState(updateBlockingRules(
         [w EXCEPT !.ts.isRunning = FALSE,
                   !.ts.timeRemaining = TIMER_CONFIG[w.ts.mode] * SecPerMin,
                   !.ts.pausedAt = t,
                   !.alarm = FALSE]))

pauseTimer(w, t) ==
  IF ~w.ts.isRunning THEN w
  ELSE saveState(updateBlockingRules([w EXCEPT !.ts.isRunning = FALSE,
                                               !.ts.pausedAt = t,
                                               !.alarm = FALSE]))

\* resetTimer that reports a session whether or not the timer runs
resetTimer_alwaysReports(w, t) ==
  LET sessionData == [session_type |-> w.ts.mode,
                      duration_minutes |-> TIMER_CONFIG[w.ts.mode],
                      completed |-> FALSE,
                      started_at |-> toISOString(w.ts.startedAt),
                      ended_at |-> toISOString(t)]
      w1 == saveSessionToBackend(w, sessionData)
  IN saveState([w1 EXCEPT !.ts.isRunning = FALSE,
                          !.ts.timeRemaining = TIMER_CONFIG[w.ts.mode] * SecPerMin,
                          !.ts.startedAt = Null,
                          !.ts.pausedAt = Null,
                          !.alarm = FALSE])

\* resetTimer that restores the pomodoro duration in every mode
resetTimer_pomodoroTime(w, t) ==
  LET sessionData == [session_type |-> w.ts.mode,
                      duration_minutes |-> TIMER_CONFIG[w.ts.mode],
                      completed |-> FALSE,
                      started_at |-> toISOString(w.ts.startedAt),
                      ended_at |-> toISOString(t)]
      w1 == IF w.ts.isRunning /\ Truthy(w.ts.startedAt)
            THEN saveSessionToBackend(w, sessionData)
            ELSE w
  IN saveState([w1 EXCEPT !.ts.isRunning = FALSE,
                          !.ts.timeRemaining = TIMER_CONFIG.pomodoro * SecPerMin,
                          !.ts.startedAt = Null,
                          !.ts.pausedAt = Null,
                          !.alarm = FALSE])

\* resetTimer that leaves startedAt as it is
resetTimer_keepsStart(w, t) ==
  LET sessionData == [session_type |-> w.ts.mode,
                      duration_minutes |-> TIMER_CONFIG[w.ts.mode],
                      completed |-> FALSE,
                      started_at |-> toISOString(w.ts.startedAt),
                      ended_at |-> toISOString(t)]
      w1 == IF w.ts.isRunning /\ Truthy(w.ts.startedAt)
            THEN saveSessionToBackend(w, sessionData)
            ELSE w
  IN saveState([w1 EXCEPT !.ts.isRunning = FALSE,
                          !.ts.timeRemaining = TIMER_CONFIG[w.ts.mode] * SecPerMin,
                          !.ts.pausedAt = Null,
                          !.alarm = FALSE])

resetTimer(w, t) ==
  LET sessionData == [session_type |-> w.ts.mode,
                      duration_minutes |-> ConfigOf(w.ts.mode),
                      completed |-> FALSE,
                      started_at |-> toISOString(w.ts.startedAt),
                      ended_at |-> toISOString(t)]
      w1 == IF w.ts.isRunning /\ Truthy(w.ts.startedAt)
            THEN saveSessionToBackend(w, sessionData)
            ELSE w
  IN saveState([w1 EXCEPT !.ts.isRunning = FALSE,
                          !.ts.timeRemaining = Times(ConfigOf(w.ts.mode), SecPerMin),
                          !.ts.startedAt = Null,
                          !.ts.pausedAt = Null,
                          !.alarm = FALSE])

\* completeTimer that reports the session a second time at its end
completeTimer_reportsTwice(w, t) ==
  LET sessionData == [session_type |-> w.ts.mode,
                      duration_minutes |-> TIMER_CONFIG[w.ts.mode],
                      completed |-> TRUE,
                      started_at |-> toISOString(w.ts.startedAt),
                      ended_at |-> toISOString(t)]
      w1 == saveSessionToBackend(w, sessionData)
      w2 == [w1 EXCEPT !.ts.isRunning = FALSE,
                       !.ts.timeRemaining = 0,
                       !.alarm = FALSE,
                       !.completes = @ + 1,
                       !.notified = Append(@, [message |-> messages[w.ts.mode],
                                               requireInteraction |-> TRUE])]
      nextMode == IF w2.ts.mode = "pomodoro" THEN "shortBreak" ELSE "pomodoro"
  IN saveSessionToBackend(
       saveState(updateBlockingRules(switchMode(w2, nextMode))), sessionData)

\* completeTimer that reports the session after it has saved the new state
completeTimer_reportsLast(w, t) ==
  LET sessionData == [session_type |-> w.ts.mode,
                      duration_minutes |-> TIMER_CONFIG[w.ts.mode],
                      completed |-> TRUE,
                      started_at |-> toISOString(w.ts.startedAt),
                      ended_at |-> toISOString(t)]
      w2 == [w EXCEPT !.ts.isRunning = FALSE,
                      !.ts.timeRemaining = 0,
                      !.alarm = FALSE,
                      !.completes = @ + 1,
                      !.notified = Append(@, [message |-> messages[w.ts.mode],
                                              requireInteraction |-> TRUE])]
      nextMode == IF w2.ts.mode = "pomodoro" THEN "shortBreak" ELSE "pomodoro"
  IN saveSessionToBackend(
       saveState(updateBlockingRules(switchMode(w2, nextMode))), sessionData)

\* completeTimer that leaves the mode and the countdown at 0
completeTimer_staysAtZero(w, t) ==
  LET sessionData == [session_type |-> w.ts.mode,
                      duration_minutes |-> TIMER_CONFIG[w.ts.mode],
                      completed |-> TRUE,
                      started_at |-> toISOString(w.ts.startedAt),
                      ended_at |-> toISOString(t)]
      w1 == saveSessionToBackend(w, sessionData)
      w2 == [w1 EXCEPT !.ts.isRunning = FALSE,
                       !.ts.timeRemaining = 0,
                       !.ts.startedAt = Null,
                       !.ts.pausedAt = Null,
                       !.alarm = FALSE,
                       !.completes = @ + 1,
                       !.notified = Append(@, [message |-> messages[w.ts.mode],
                                               requireInteraction |-> TRUE])]
  IN saveState(updateBlockingRules(w2))

\* completeTimer that creates no notification
completeTimer_silent(w, t) ==
  LET sessionData == [session_type |-> w.ts.mode,
                      duration_minutes |-> TIMER_CONFIG[w.ts.mode],
                      completed |-> TRUE,
                      started_at |-> toISOString(w.ts.startedAt),
                      ended_at |-> toISOString(t)]
      w1 == saveSessionToBackend(w, sessionData)
      w2 == [w1 EXCEPT !.ts.isRunning = FALSE,
                       !.ts.timeRemaining = 0,
                       !.alarm = FALSE,
                       !.completes = @ + 1]
      nextMode == IF w2.ts.mode = "pomodoro" THEN "shortBreak" ELSE "pomodoro"
  IN saveState(updateBlockingRules(switchMode(w2, nextMode)))

\* completeTimer that switches the mode before it clears isRunning
completeTimer_switchesFirst(w, t) ==
  LET sessionData == [session_type |-> w.ts.mode,
                      duration_minutes |-> TIMER_CONFIG[w.ts.mode],
                      completed |-> TRUE,
                      started_at |-> toISOString(w.ts.startedAt),
                      ended_at |-> toISOString(t)]
      w1 == saveSessionToBackend(w, sessionData)
      nextMode == IF w1.ts.mode = "pomodoro" THEN "shortBreak" ELSE "pomodoro"
      w2 == switchMode(w1, nextMode)
  IN saveState(updateBlockingRules(
       [w2 EXCEPT !.ts.isRunning = FALSE,
                  !.ts.timeRemaining = 0,
                  !.alarm = FALSE,
                  !.completes = @ + 1,
                  !.notified = Append(@, [message |-> messages[w.ts.mode],
                                          requireInteraction |-> TRUE])]))

completeTimer(w, t) ==
  LET sessionData == [session_type |-> w.ts.mode,
                      duration_minutes |-> ConfigOf(w.ts.mode),
                      completed |-> TRUE,
                      started_at |-> toISOString(w.ts.startedAt),
                      ended_at |-> toISOString(t)]
      w1 == saveSessionToBackend(w, sessionData)
      w2 == [w1 EXCEPT !.ts.isRunning = FALSE,
                       !.ts.timeRemaining = 0,
                       !.alarm = FALSE,
                       !.completes = @ + 1,
                       !.notified = Append(@, [message |-> MessageOf(w.ts.mode),
                                               requireInteraction |-> TRUE])]
      nextMode == IF w2.ts.mode = "pomodoro" THEN "shortBreak" ELSE "pomodoro"
  IN saveState(updateBlockingRules(switchMode(w2, nextMode)))

\* resumeTimer that trusts the stored countdown instead of the wall clock
resumeTimer_stale(w, t) ==
  IF ~w.ts.isRunning THEN w
  ELSE IF w.ts.timeRemaining > 0
       THEN [w EXCEPT !.alarm = TRUE]
       ELSE completeTimer(w, t)

resumeTimer(w, t) ==
  IF ~w.ts.isRunning THEN w
  ELSE LET elapsed == (t - w.ts.startedAt) \div Resolution
           originalTime == Times(ConfigOf(w.ts.mode), SecPerMin)
           w1 == [w EXCEPT !.ts.timeRemaining = Max(0, Minus(originalTime, elapsed))]
       IN IF Gt(w1.ts.timeRemaining, 0)
          THEN [w1 EXCEPT !.alarm = TRUE]
          ELSE completeTimer(w1, t)

\* onAlarm that counts two seconds for a tick
onAlarm_doubleDecrement(w, t) ==
  IF ~w.ts.isRunning THEN w
  ELSE LET w1 == [w EXCEPT !.ts.timeRemaining = @ - 2]
           w2 == IF w1.ts.timeRemaining <= 0 THEN completeTimer(w1, t) ELSE w1
       IN saveState(w2)

\* onAlarm that stops counting at 1 and never completes
onAlarm_neverCompletes(w, t) ==
  IF ~w.ts.isRunning THEN w
  ELSE saveState([w EXCEPT !.ts.timeRemaining = IF @ > 1 THEN @ - 1 ELSE @])

\* onAlarm without the isRunning guard
onAlarm_noGuard(w, t) ==
  LET w1 == [w EXCEPT !.ts.timeRemaining = @ - 1]
      w2 == IF w1.ts.timeRemaining <= 0 THEN completeTimer(w1, t) ELSE w1
  IN saveState(w2)

\* onAlarm that completes one tick early
onAlarm_offByOne(w, t) ==
  IF ~w.ts.isRunning THEN w
  ELSE LET w1 == [w EXCEPT !.ts.timeRemaining = @ - 1]
           w2 == IF w1.ts.timeRemaining <= 1 THEN completeTimer(w1, t) ELSE w1
       IN saveState(w2)

\* chrome.alarms.onAlarm listener, for the alarm 'pomodoroTimer'
onAlarm(w, t) ==
  IF ~w.ts.isRunning THEN w
  ELSE LET w1 == [w EXCEPT !.ts.timeRemaining = Minus(@, 1)]
           w2 == IF Leq(w1.ts.timeRemaining, 0) THEN completeTimer(w1, t) ELSE w1
       IN saveState(w2)

\* the callback of chrome.storage.local.get(['timerState']) in onInstalled;
\* result is <<>> when the key is unset and <<snapshot>> otherwise
onInstalledCallback(w, result, t) ==
  IF result = <<>> THEN w
  ELSE LET w1 == [w EXCEPT !.ts = Spread(w.ts, result[1])]
       IN IF w1.ts.isRunning /\ Truthy(w1.ts.startedAt)
          THEN resumeTimer(w1, t)
          ELSE w1

sendResponse(w, value) == [w EXCEPT !.response = <<value>>]

\* onMessage whose GET_STATE case lacks its break and falls into START_TIMER
onMessage_fallThrough(w, request, t) ==
  CASE request.action = "GET_STATE" -> startTimer(sendResponse(w, w.ts), t)
    [] request.action = "START_TIMER" ->
         LET w1 == startTimer(w, t) IN sendResponse(w1, w1.ts)
    [] request.action = "PAUSE_TIMER" ->
         LET w1 == pauseTimer(w, t) IN sendResponse(w1, w1.ts)
    [] request.action = "RESET_TIMER" ->
         LET w1 == resetTimer(w, t) IN sendResponse(w1, w1.ts)
    [] request.action = "SWITCH_MODE" ->
         LET w1 == switchMode(w, request.mode) IN sendResponse(w1, w1.ts)
    [] OTHER -> sendResponse(w, [error |-> "Unknown action"])

\* onMessage whose default case resets the timer and answers with the snapshot
onMessage_defaultResets(w, request, t) ==
  CASE request.action = "GET_STATE" -> sendResponse(w, w.ts)
    [] request.action = "START_TIMER" ->
         LET w1 == startTimer(w, t) IN sendResponse(w1, w1.ts)
    [] request.action = "PAUSE_TIMER" ->
         LET w1 == pauseTimer(w, t) IN sendResponse(w1, w1.ts)
    [] request.action = "RESET_TIMER" ->
         LET w1 == resetTimer(w, t) IN sendResponse(w1, w1.ts)
    [] request.action = "SWITCH_MODE" ->
         LET w1 == switchMode(w, request.mode) IN sendResponse(w1, w1.ts)
    [] OTHER -> LET w1 == resetTimer(w, t) IN sendResponse(w1, w1.ts)

\* chrome.runtime.onMessage listener
onMessage(w, request, t) ==
  CASE request.action = "GET_STATE" -> sendResponse(w, w.ts)
    [] request.action = "START_TIMER" ->
         LET w1 == startTimer(w, t) IN sendResponse(w1, w1.ts)
    [] request.action = "PAUSE_TIMER" ->
         LET w1 == pauseTimer(w, t) IN sendResponse(w1, w1.ts)
    [] request.action = "RESET_TIMER" ->
         LET w1 == resetTimer(w, t) IN sendResponse(w1, w1.ts)
    [] request.action = "SWITCH_MODE" ->
         LET w1 == switchMode(w, request.mode) IN sendResponse(w1, w1.ts)
    [] OTHER -> sendResponse(w, [error |-> "Unknown action"])

----------------------------------------------------------------------------
\* The site-blocking engine

updateBlockingRulesCallback_ignoresMode(result, ts) ==
  LET blockingEnabled == OrDefault(result.blockingEnabled, TRUE)
      blockedSites == OrDefault(result.blockedSites, DefaultSites)
  IN IF blockingEnabled /\ ts.isRunning
     THEN [kind |-> "enable", sites |-> blockedSites]
     ELSE [kind |-> "disable", sites |-> <<>>]

\* the callback of chrome.storage.local.get in updateBlockingRules: result is
\* what the read returned, ts the snapshot when the callback runs; the value
\* is the call it makes, enableBlocking(sites) or disableBlocking()
updateBlockingRulesCallback(result, ts) ==
  LET blockingEnabled == OrDefault(result.blockingEnabled, TRUE)
      blockDuringWork == OrDefault(result.blockDuringWork, TRUE)
      blockedSites == OrDefault(result.blockedSites, DefaultSites)
      shouldBlock == /\ blockingEnabled
                     /\ ts.isRunning
                     /\ (~blockDuringWork \/ ts.mode = "pomodoro")
  IN IF shouldBlock
     THEN [kind |-> "enable", sites |-> blockedSites]
     ELSE [kind |-> "disable", sites |-> <<>>]

Rule(id, urlFilter) ==
  [id |-> id, priority |-> 1, redirect |-> "/blocked/blocked.html",
   urlFilter |-> urlFilter, resourceTypes |-> {"main_frame"}]

\* chrome.declarativeNetRequest.updateDynamicRules: the listed ids are
\* removed and the rules added in one step; an added rule whose id is still
\* in use makes the whole call fail
updateDynamicRules(current, removeRuleIds, addRules) ==
  LET kept == {r \in current : r.id \notin removeRuleIds}
  IN IF \E a \in addRules : \E k \in kept : a.id = k.id
     THEN current
     ELSE kept \cup addRules

\* allRules of enableBlocking
enableBlocking(sites) ==
  {Rule(index, <<"*://*.", sites[index], "/*">>) : index \in 1..Len(sites)}
  \cup
  {Rule(Len(sites) + index, <<"*://", sites[index], "/*">>) :
     index \in 1..Len(sites)}

enableBlockingCallback_addsOnly(current, existingRules, sites) ==
  updateDynamicRules(current, {}, enableBlocking(sites))

\* the callback of getDynamicRules in enableBlocking
enableBlockingCallback(current, existingRules, sites) ==
  updateDynamicRules(current, {r.id : r \in existingRules},
                     enableBlocking(sites))

\* the callback of getDynamicRules in disableBlocking
disableBlocking(current, existingRules) ==
  LET ruleIds == {r.id : r \in existingRules}
  IN IF ruleIds # {}
     THEN updateDynamicRules(current, ruleIds, {})
     ELSE current

onChanged_ignoresSites(w, changes, namespace) ==
  IF /\ namespace = "local"
     /\ changes \cap {"blockingEnabled", "blockDuringWork"} # {}
  THEN updateBlockingRules(w)
  ELSE w

\* chrome.storage.onChanged listener
onChanged(w, changes, namespace) ==
  IF /\ namespace = "local"
     /\ changes \cap {"blockingEnabled", "blockDuringWork", "blockedSites"} # {}
  THEN updateBlockingRules(w)
  ELSE w

----------------------------------------------------------------------------
\* The state machine

\* the world at the start of an event: nothing put out yet
World ==
  [ts |-> timerState, storage |-> storage, alarm |-> alarm,
   response |-> <<>>, emitted |-> <<>>, issued |-> <<>>, notified |-> <<>>,
   completes |-> 0, writes |-> 0, recomputes |-> 0]

Commit(w) ==
  /\ timerState' = w.ts
  /\ storage' = w.storage
  /\ alarm' = w.alarm
  /\ response' = w.response
  /\ emitted' = w.emitted
  /\ issued' = w.issued
  /\ notified' = w.notified
  /\ completes' = w.completes
  /\ writes' = w.writes
  /\ recomputes' = w.recomputes

Ev(type, mode) == [type |-> type, mode |-> mode]

\* First install: the worker's globals are initialised, nothing is stored.
Init ==
  /\ timerState = DefaultState
  /\ storage = <<>>
  /\ alarm = FALSE
  /\ now = 1
  /\ pendingGet = <<>>
  /\ event = Ev("install", "")
  /\ response = <<>>
  /\ emitted = <<>>
  /\ issued = <<>>
  /\ notified = <<>>
  /\ completes = 0
  /\ writes = 0
  /\ recomputes = 0
  /\ run = <<>>
  /\ config = [blockingEnabled |-> <<>>, blockDuringWork |-> <<>>,
               blockedSites |-> <<>>]
  /\ rules = {}
  /\ pending = <<>>
  /\ inflight = 0

\* History of the current run, kept for the properties about sequences of
\* events: set by every START_TIMER; counted up by every tick of a run that
\* began fresh and dropped by the first tick of any other run; dropped by
\* Pause, Reset and every activation; kept by the remaining events as long
\* as the timer is running.
\*   after  the snapshot right after the START_TIMER
\*   ticks  the alarm events handled since
\*   fresh  the START_TIMER found a stopped snapshot with the full duration
RunStarted(before, after) ==
  <<[after |-> after, ticks |-> 0,
     fresh |-> /\ ~before.isRunning
               /\ before.startedAt = Null
               /\ before.timeRemaining # NaN
               /\ before.timeRemaining = Times(ConfigOf(before.mode), SecPerMin)]>>

RunTicked ==
  IF run # <<>> /\ run[1].fresh THEN <<[run[1] EXCEPT !.ticks = @ + 1]>> ELSE <<>>

RunKept == IF timerState.isRunning THEN run ELSE <<>>

\* an event is handled while the storage read, if any, is still pending
Raced ==
  /\ pendingGet # <<>> => pendingGet[1].raced < MaxRace
  /\ pendingGet' = IF pendingGet = <<>> THEN <<>>
                   ELSE <<[pendingGet[1] EXCEPT !.raced = @ + 1]>>

Message(request) ==
  /\ Commit(onMessage(World, request, now))
  /\ event' = Ev(request.action, request.mode)
  /\ Raced
  /\ UNCHANGED now

GET_STATE ==
  /\ Message([action |-> "GET_STATE", mode |-> ""])
  /\ run' = RunKept

START_TIMER ==
  /\ Message([action |-> "START_TIMER", mode |-> ""])
  /\ run' = RunStarted(timerState, timerState')

PAUSE_TIMER ==
  /\ Message([action |-> "PAUSE_TIMER", mode |-> ""])
  /\ run' = <<>>

RESET_TIMER ==
  /\ Message([action |-> "RESET_TIMER", mode |-> ""])
  /\ run' = <<>>

SWITCH_MODE(newMode) ==
  /\ Message([action |-> "SWITCH_MODE", mode |-> newMode])
  /\ run' = RunKept

UNKNOWN_ACTION ==
  /\ Message([action |-> "PING", mode |-> ""])
  /\ run' = RunKept

\* the alarm fires
AlarmTick ==
  /\ alarm
  /\ Commit(onAlarm(World, now))
  /\ event' = Ev("tick", "")
  /\ run' = RunTicked
  /\ Raced
  /\ UNCHANGED now

\* Chrome stops the idle worker and starts it again for the next event: the
\* script is evaluated anew, onInstalled does not fire, pending callbacks are
\* gone; alarms and storage persist.
WorkerRestart ==
  /\ Commit([World EXCEPT !.ts = DefaultState])
  /\ pendingGet' = <<>>
  /\ event' = Ev("restart", "")
  /\ run' = <<>>
  /\ UNCHANGED now

\* The extension or the browser is updated: the worker starts anew and
\* onInstalled fires, which issues the storage read; the read is served in
\* the order of the worker's storage calls, so it returns the value stored
\* now.  Alarms may or may not survive the update.
Installed ==
  \E alarmKept \in BOOLEAN :
    /\ Commit([World EXCEPT !.ts = DefaultState, !.alarm = alarm /\ alarmKept])
    /\ pendingGet' = <<[result |-> storage, raced |-> 0]>>
    /\ event' = Ev("installed", "")
    /\ run' = <<>>
    /\ UNCHANGED now

StorageGetCallback ==
  /\ pendingGet # <<>>
  /\ Commit(onInstalledCallback(World, pendingGet[1].result, now))
  /\ pendingGet' = <<>>
  /\ event' = Ev("loaded", "")
  /\ run' = <<>>
  /\ UNCHANGED now

\* the largest suspension the model lets pass at once: longer than any mode
Gap == Resolution * (TIMER_CONFIG.pomodoro * SecPerMin + 1)

\* Wall-clock time passes: unit by unit up to MaxNow, or once by Gap.
ClockAdvance(d) ==
  /\ now + d <= MaxNow \/ (d = Gap /\ now <= MaxNow)
  /\ now' = now + d
  /\ event' = Ev("clock", "")
  /\ response' = <<>>
  /\ emitted' = <<>>
  /\ issued' = <<>>
  /\ notified' = <<>>
  /\ completes' = 0
  /\ writes' = 0
  /\ recomputes' = 0
  /\ run' = RunKept
  /\ UNCHANGED <<timerState, storage, alarm, pendingGet>>

\* the engine at rest, the reports' outcomes not followed
Detached == UNCHANGED <<config, rules, pending, inflight>>

Next ==
  \/ GET_STATE /\ Detached
  \/ START_TIMER /\ Detached
  \/ PAUSE_TIMER /\ Detached
  \/ RESET_TIMER /\ Detached
  \/ \E newMode \in Modes : SWITCH_MODE(newMode) /\ Detached
  \/ UNKNOWN_ACTION /\ Detached
  \/ AlarmTick /\ Detached
  \/ WorkerRestart /\ Detached
  \/ Installed /\ Detached
  \/ StorageGetCallback /\ Detached
  \/ \E d \in {1, Gap} : ClockAdvance(d) /\ Detached

Spec == Init /\ [][Next]_vars

----------------------------------------------------------------------------
\* The engine's steps

\* a recomputation that waits for its settings read; the read is served
\* when its callback runs
SettingsRead(cause) ==
  [stage |-> "settings", cause |-> cause]

\* every updateBlockingRules call of the event starts a recomputation
Attached ==
  /\ Len(pending) + recomputes' <= MaxPending
  /\ config' = config
  /\ rules' = rules
  /\ pending' = pending \o [i \in 1..recomputes' |-> SettingsRead(event'.type)]
  /\ inflight' = inflight

\* the first recomputation that waits at the given stage
First(stage) ==
  CHOOSE i \in 1..Len(pending) :
    /\ pending[i].stage = stage
    /\ \A j \in 1..(i - 1) : pending[j].stage # stage

Waiting(stage) == \E i \in 1..Len(pending) : pending[i].stage = stage

\* an engine step leaves the timer alone; the event tells what started the
\* recomputation or which key was written
TimerIdle(type, detail) ==
  /\ event' = Ev(type, detail)
  /\ response' = <<>>
  /\ emitted' = <<>>
  /\ issued' = <<>>
  /\ notified' = <<>>
  /\ completes' = 0
  /\ writes' = 0
  /\ run' = RunKept
  /\ UNCHANGED <<timerState, storage, alarm, now, pendingGet, inflight>>

\* the settings read of updateBlockingRules calls back: the decision is
\* taken and enableBlocking or disableBlocking issues its rules read, which
\* returns the rules installed now
SettingsCallback ==
  /\ Waiting("settings")
  /\ LET i == First("settings")
         call == updateBlockingRulesCallback(config, timerState)
     IN pending' = [pending EXCEPT ![i] =
                      [stage |-> "rules", cause |-> pending[i].cause,
                       kind |-> call.kind, sites |-> call.sites,
                       existing |-> rules]]
  /\ recomputes' = 0
  /\ TimerIdle("settingsRead", pending[First("settings")].cause)
  /\ UNCHANGED <<config, rules>>

\* the rules read of enableBlocking or disableBlocking calls back and the
\* rule set is updated
RulesCallback ==
  /\ Waiting("rules")
  /\ LET i == First("rules")
         it == pending[i]
     IN /\ rules' = IF it.kind = "enable"
                    THEN enableBlockingCallback(rules, it.existing, it.sites)
                    ELSE disableBlocking(rules, it.existing)
        /\ pending' = SubSeq(pending, 1, i - 1)
                         \o SubSeq(pending, i + 1, Len(pending))
  /\ recomputes' = 0
  /\ TimerIdle("rulesRead", pending[First("rules")].cause)
  /\ UNCHANGED config

\* the settings page writes a key and the worker's onChanged listener runs
ConfigChange(key, value) ==
  /\ config' = [config EXCEPT ![key] = <<value>>]
  /\ recomputes' = onChanged([recomputes |-> 0], {key}, "local").recomputes
  /\ TimerIdle("config", key)
  /\ Len(pending) + recomputes' <= MaxPending
  /\ pending' = pending \o [i \in 1..recomputes' |-> SettingsRead("config")]
  /\ UNCHANGED rules

\* saveSetting: a toggle of the settings page is clicked
SaveSetting(key) ==
  ConfigChange(key, ~OrDefault(config[key], TRUE))

\* addSite
AddSite(site) ==
  LET sites == OrDefault(config.blockedSites, DEFAULT_BLOCKED_SITES)
  IN /\ \A i \in 1..Len(sites) : sites[i] # site
     /\ ConfigChange("blockedSites", Append(sites, site))

\* removeSite
RemoveSite(site) ==
  LET sites == OrDefault(config.blockedSites, DEFAULT_BLOCKED_SITES)
  IN /\ \E i \in 1..Len(sites) : sites[i] = site
     /\ ConfigChange("blockedSites",
                     SelectSeq(sites, LAMBDA x : x # site))

NextRules ==
  \/ START_TIMER /\ Attached
  \/ PAUSE_TIMER /\ Attached
  \/ RESET_TIMER /\ Attached
  \/ \E newMode \in Modes : SWITCH_MODE(newMode) /\ Attached
  \/ SettingsCallback
  \/ RulesCallback
  \/ \E key \in {"blockingEnabled", "blockDuringWork"} : SaveSetting(key)
  \/ \E site \in SiteInputs : AddSite(site)
  \/ \E site \in SiteInputs : RemoveSite(site)

SpecRules == Init /\ [][NextRules]_vars

----------------------------------------------------------------------------
\* The late deliveries

\* every POST of the event awaits its outcome
Reported ==
  /\ inflight + Len(emitted') <= MaxInFlight
  /\ inflight' = inflight + Len(emitted')
  /\ UNCHANGED <<config, rules, pending>>

\* the outcome of a POST arrives: a 2xx response, another response, or no
\* response at all; a POST that never returns stays in flight
PostSettles(outcome) ==
  /\ inflight > 0
  /\ inflight' = inflight - 1
  /\ Commit(saveSessionToBackendSettled(World, outcome))
  /\ event' = Ev("posted", outcome)
  /\ run' = RunKept
  /\ UNCHANGED <<now, pendingGet, config, rules, pending>>

\* an alarm event that was dispatched before the last step cleared the alarm
\* (an effective Pause, a reporting Reset or a Complete) is delivered
LateTick ==
  /\ ~alarm
  /\ \/ event.type = "PAUSE_TIMER" /\ writes = 1
     \/ event.type = "RESET_TIMER" /\ Len(emitted) = 1
     \/ completes = 1
  /\ Commit(onAlarm(World, now))
  /\ event' = Ev("lateTick", "")
  /\ run' = RunKept
  /\ UNCHANGED <<now, pendingGet>>

NextReport ==
  \/ START_TIMER /\ Reported
  \/ PAUSE_TIMER /\ Reported
  \/ RESET_TIMER /\ Reported
  \/ \E newMode \in Modes : SWITCH_MODE(newMode) /\ Reported
  \/ AlarmTick /\ Reported
  \/ LateTick /\ Reported
  \/ \E d \in {1, Gap} : ClockAdvance(d) /\ Reported
  \/ \E outcome \in {"ok", "http_error", "network_error"} :
       PostSettles(outcome)

SpecReport == Init /\ [][NextReport]_vars

----------------------------------------------------------------------------
\* Messages of any sender

\* request.mode of a SWITCH_MODE message: a recognized mode, no mode at all,
\* or some other string
Payloads == Modes \cup {undefined, "coffee"}

NextPayload ==
  \/ START_TIMER /\ Detached
  \/ PAUSE_TIMER /\ Detached
  \/ RESET_TIMER /\ Detached
  \/ \E newMode \in Payloads : SWITCH_MODE(newMode) /\ Detached
  \/ AlarmTick /\ Detached
  \/ Installed /\ Detached
  \/ StorageGetCallback /\ Detached
  \/ \E d \in {1, Gap} : ClockAdvance(d) /\ Detached

SpecPayload == Init /\ [][NextPayload]_vars

----------------------------------------------------------------------------
\* The documented durations, written out independently of TIMER_CONFIG

nominalMinutes(m) ==
  CASE m = "pomodoro" -> 25
    [] m = "shortBreak" -> 5
    [] m = "longBreak" -> 15

nominalSeconds(m) == nominalMinutes(m) * SecPerMin

\* max(0, nominal - floor((t - startedAt) / 1000))
Reconciled(s, t) ==
  LET d == nominalSeconds(s.mode) - ((t - s.startedAt) \div Resolution)
  IN IF d < 0 THEN 0 ELSE d

\* the three documented fields of a session record
IsRecord(r, m, done) ==
  /\ r.session_type = m
  /\ r.duration_minutes = nominalMinutes(m)
  /\ r.completed = done

----------------------------------------------------------------------------
\* C1: in every reachable state 0 <= timeRemaining <= nominalSeconds(mode).
C1_TimeRemainingInRange ==
  /\ timerState.timeRemaining >= 0
  /\ timerState.timeRemaining <= nominalSeconds(timerState.mode)

\* a tick has brought the countdown to its end and the next mode is loaded
C1_Witness ==
  /\ event.type = "tick"
  /\ completes = 1
  /\ timerState.mode = "shortBreak"
  /\ timerState.timeRemaining = nominalSeconds("shortBreak")

\* C2: every activation loads the persisted snapshot: a timer that was
\* running before the worker was torn down is still running, or has been
\* completed, once the worker is active again, and a stopped one is restored
\* as it was persisted.
C2_LoadedOnEveryActivation ==
  [][(event'.type = "restart" /\ storage # <<>>) =>
       IF storage[1].isRunning
       THEN timerState'.isRunning \/ completes' > 0
       ELSE timerState' = storage[1]]_vars

\* what the pending storage read hands to its callback
Loaded == IF pendingGet = <<>> THEN <<>> ELSE pendingGet[1].result

\* C3: loading a running snapshot sets timeRemaining to
\* max(0, nominal - floor(elapsed seconds)); at 0 it completes and the alarm
\* is not started, otherwise the alarm is started with the reconciled value.
C3_Reconciliation ==
  [][(event'.type = "loaded" /\ Loaded # <<>> /\ Loaded[1].isRunning) =>
       LET r == Reconciled(Loaded[1], now)
       IN IF r = 0
          THEN /\ completes' = 1
               /\ ~alarm'
               /\ ~timerState'.isRunning
               /\ Len(emitted') = 1
               /\ IsRecord(emitted'[1], Loaded[1].mode, TRUE)
          ELSE /\ completes' = 0
               /\ alarm'
               /\ timerState' = [Loaded[1] EXCEPT !.timeRemaining = r]
               /\ emitted' = <<>>]_vars

\* a pomodoro found on activation to have run out has been completed
C3_Witness ==
  /\ event.type = "loaded"
  /\ completes = 1
  /\ emitted # <<>>
  /\ emitted[1].session_type = "pomodoro"
  /\ now - emitted[1].started_at[2] > Resolution * nominalSeconds("pomodoro")

\* C4: a run started from the stopped full-duration snapshot and followed by
\* ticks only emits nothing before tick number nominalSeconds(mode), and that
\* tick completes once and emits exactly one record {mode, minutes, true}.
C4_CompleteAfterNominalTicks ==
  (run # <<>> /\ run[1].fresh) =>
     LET m == run[1].after.mode
         k == run[1].ticks
     IN /\ k <= nominalSeconds(m)
        /\ k < nominalSeconds(m) =>
             /\ emitted = <<>>
             /\ completes = 0
             /\ timerState.isRunning
        /\ k = nominalSeconds(m) =>
             /\ completes = 1
             /\ Len(emitted) = 1
             /\ IsRecord(emitted[1], m, TRUE)

\* the last tick of a full pomodoro
C4_Witness ==
  /\ run # <<>>
  /\ run[1].fresh
  /\ run[1].after.mode = "pomodoro"
  /\ run[1].ticks = nominalSeconds("pomodoro")
  /\ event.type = "tick"
  /\ completes = 1

\* the mode in memory, in storage or in a storage read under way is longBreak
InLongBreak ==
  \/ timerState.mode = "longBreak"
  \/ storage # <<>> /\ storage[1].mode = "longBreak"
  \/ Loaded # <<>> /\ Loaded[1].mode = "longBreak"

\* C5: every Complete leaves a stopped snapshot with both timestamps cleared,
\* in shortBreak after a pomodoro and in pomodoro after a break, with the new
\* mode's full duration; only SWITCH_MODE to longBreak ever enters longBreak.
C5_CompleteAlternates ==
  [][/\ completes' > 0 =>
          LET finished == IF event'.type = "tick" THEN timerState.mode
                          ELSE Loaded[1].mode
              next == IF finished = "pomodoro" THEN "shortBreak" ELSE "pomodoro"
          IN timerState' = [mode |-> next,
                            timeRemaining |-> nominalSeconds(next),
                            isRunning |-> FALSE,
                            startedAt |-> Null,
                            pausedAt |-> Null]
     /\ (~InLongBreak /\ InLongBreak') =>
          event' = [type |-> "SWITCH_MODE", mode |-> "longBreak"]]_vars

\* a long break has run out and the controller is back in pomodoro
C5_Witness ==
  /\ completes = 1
  /\ emitted # <<>>
  /\ emitted[1].session_type = "longBreak"
  /\ timerState.mode = "pomodoro"
  /\ ~timerState.isRunning

\* C6: SWITCH_MODE while running changes nothing: the snapshot and the
\* persisted record are unchanged, the alarm stays, no record is emitted and
\* the response is the unchanged snapshot.
C6_SwitchWhileRunningNoOp ==
  [][(event'.type = "SWITCH_MODE" /\ timerState.isRunning) =>
       /\ timerState' = timerState
       /\ storage' = storage
       /\ alarm /\ alarm'
       /\ emitted' = <<>>
       /\ writes' = 0
       /\ response' = <<timerState>>]_vars

\* a switch to another mode was answered while the timer runs
C6_Witness ==
  /\ event.type = "SWITCH_MODE"
  /\ event.mode # timerState.mode
  /\ timerState.isRunning
  /\ response = <<timerState>>

\* C7: a START_TIMER that follows a START_TIMER with no Pause, Reset, tick
\* or activation between them leaves the snapshot as the first one left it.
C7_StartIdempotent ==
  [][(event'.type = "START_TIMER" /\ run # <<>> /\ run[1].ticks = 0) =>
       timerState' = run[1].after]_vars

\* START_TIMER answered after the clock moved on in a run no tick has touched
C7_Witness ==
  /\ event.type = "START_TIMER"
  /\ timerState.isRunning
  /\ timerState.startedAt < now
  /\ timerState.pausedAt = Null
  /\ timerState.timeRemaining = nominalSeconds(timerState.mode)
  /\ run # <<>> /\ ~run[1].fresh

\* C8: PAUSE_TIMER while stopped changes nothing: every field of the snapshot
\* (pausedAt too) and the persisted record are unchanged, nothing is written
\* or emitted, and the response is the unchanged snapshot.
C8_PauseWhileStoppedNoOp ==
  [][(event'.type = "PAUSE_TIMER" /\ ~timerState.isRunning) =>
       /\ timerState' = timerState
       /\ storage' = storage
       /\ alarm' = alarm
       /\ writes' = 0
       /\ emitted' = <<>>
       /\ response' = <<timerState>>]_vars

\* a second PAUSE_TIMER answered later than the pause it follows
C8_Witness ==
  /\ event.type = "PAUSE_TIMER"
  /\ ~timerState.isRunning
  /\ writes = 0
  /\ timerState.pausedAt # Null
  /\ timerState.pausedAt < now

\* C9: an effective PAUSE_TIMER stops the timer, sets pausedAt and keeps
\* mode and timeRemaining; every START_TIMER keeps mode and timeRemaining.
C9_PauseStartKeepCountdown ==
  [][/\ (event'.type = "PAUSE_TIMER" /\ timerState.isRunning) =>
          /\ ~timerState'.isRunning
          /\ timerState'.pausedAt = now
          /\ timerState'.mode = timerState.mode
          /\ timerState'.timeRemaining = timerState.timeRemaining
     /\ event'.type = "START_TIMER" =>
          /\ timerState'.isRunning
          /\ timerState'.mode = timerState.mode
          /\ timerState'.timeRemaining = timerState.timeRemaining]_vars

\* a paused, partly elapsed countdown has been started again
C9_Witness ==
  /\ event.type = "START_TIMER"
  /\ timerState.isRunning
  /\ timerState.pausedAt # Null
  /\ timerState.startedAt >= timerState.pausedAt
  /\ timerState.timeRemaining < nominalSeconds(timerState.mode)

\* C10 as stated: startedAt is unset after every effective PAUSE_TIMER,
\* RESET_TIMER and SWITCH_MODE.
C10_StartedAtClearedByPause ==
  [][(\/ event'.type = "PAUSE_TIMER" /\ timerState.isRunning
      \/ event'.type = "RESET_TIMER"
      \/ event'.type = "SWITCH_MODE" /\ ~timerState.isRunning) =>
       timerState'.startedAt = Null]_vars

\* C10 amended: startedAt is unset after every RESET_TIMER and every
\* effective SWITCH_MODE; an effective PAUSE_TIMER leaves it set, unchanged.
C10_StartedAtClearedByResetAndSwitch ==
  [][/\ event'.type = "RESET_TIMER" => timerState'.startedAt = Null
     /\ (event'.type = "SWITCH_MODE" /\ ~timerState.isRunning) =>
          timerState'.startedAt = Null
     /\ (event'.type = "PAUSE_TIMER" /\ timerState.isRunning) =>
          /\ timerState'.startedAt = timerState.startedAt
          /\ timerState'.startedAt # Null]_vars

\* a running timer has been reset
C10_Witness ==
  /\ event.type = "RESET_TIMER"
  /\ emitted # <<>>
  /\ timerState.startedAt = Null

\* the stopped snapshot of mode m with its full duration
Stopped(m) ==
  [mode |-> m,
   timeRemaining |-> nominalSeconds(m),
   isRunning |-> FALSE,
   startedAt |-> Null,
   pausedAt |-> Null]

\* C11: RESET_TIMER emits exactly one record {mode, nominal minutes, false}
\* when the snapshot is running with startedAt set, and none otherwise.
C11_ResetReportsRunningOnly ==
  [][event'.type = "RESET_TIMER" =>
       IF timerState.isRunning /\ timerState.startedAt # Null
       THEN /\ Len(emitted') = 1
            /\ IsRecord(emitted'[1], timerState.mode, FALSE)
       ELSE emitted' = <<>>]_vars

\* a run that lasted some time has been reset and reported as abandoned
C11_Witness ==
  /\ event.type = "RESET_TIMER"
  /\ Len(emitted) = 1
  /\ ~emitted[1].completed
  /\ emitted[1].duration_minutes = nominalMinutes(timerState.mode)
  /\ emitted[1].started_at[2] < emitted[1].ended_at[2]

\* C12: every RESET_TIMER leaves the stopped full-duration snapshot of the
\* same mode and no alarm; a RESET_TIMER right after a RESET_TIMER changes
\* no field and emits nothing.
C12_ResetRestoresFullDuration ==
  [][event'.type = "RESET_TIMER" =>
       /\ timerState' = Stopped(timerState.mode)
       /\ ~alarm'
       /\ event.type = "RESET_TIMER" =>
            /\ timerState' = timerState
            /\ emitted' = <<>>]_vars

\* a long break has been reset
C12_Witness ==
  /\ event.type = "RESET_TIMER"
  /\ timerState = Stopped("longBreak")
  /\ ~alarm
  /\ storage = <<timerState>>

\* the block decision for a configuration and a snapshot, unset settings
\* counting as true
Blocks(c, ts) ==
  /\ c.blockingEnabled # <<FALSE>>
  /\ ts.isRunning
  /\ (c.blockDuringWork = <<FALSE>> \/ ts.mode = "pomodoro")

\* the site list of a configuration, as the controller reads it
SitesOf(c) ==
  IF c.blockedSites = <<>> THEN DefaultSites ELSE c.blockedSites[1]

\* rs is exactly two rules per site of the list: one for the bare domain,
\* one for any subdomain
TwoPerSite(rs, sites) ==
  /\ Cardinality(rs) = 2 * Len(sites)
  /\ \A i \in 1..Len(sites) :
       /\ \E r \in rs : r.urlFilter = <<"*://", sites[i], "/*">>
       /\ \E r \in rs : r.urlFilter = <<"*://*.", sites[i], "/*">>
  /\ \A r \in rs :
       /\ \E i \in 1..Len(sites) : r.urlFilter[2] = sites[i]
       /\ r.redirect = "/blocked/blocked.html"
       /\ r.resourceTypes = {"main_frame"}

\* C13: after a RESET_TIMER, once the pending callbacks have run, the
\* installed rule set is empty.
C13_ResetClearsRules ==
  (event.type = "RESET_TIMER" /\ pending = <<>>) => rules = {}

\* C14: the decision a recomputation takes when its settings read calls back
\* is block iff blockingEnabled and isRunning and (not blockDuringWork or
\* mode pomodoro), unset settings counting as true.
C14_BlockDecision ==
  [][event'.type = "settingsRead" =>
       LET i == First("settings")
       IN /\ pending'[i].stage = "rules"
          /\ (pending'[i].kind = "enable") <=>
               (/\ config.blockingEnabled \in {<<>>, <<TRUE>>}
                /\ timerState.isRunning
                /\ \/ config.blockDuringWork = <<FALSE>>
                   \/ timerState.mode = "pomodoro")
          /\ (/\ config.blockingEnabled \in {<<>>, <<TRUE>>}
              /\ config.blockDuringWork \in {<<>>, <<TRUE>>}
              /\ timerState.isRunning
              /\ timerState.mode = "shortBreak")
               => pending'[i].kind = "disable"]_vars

\* blocking enabled, running, shortBreak, blockDuringWork: not blocked
C14_Witness ==
  /\ event.type = "settingsRead"
  /\ \E i \in 1..Len(pending) :
       pending[i].stage = "rules" /\ pending[i].kind = "disable"
  /\ config.blockingEnabled # <<FALSE>>
  /\ config.blockDuringWork # <<FALSE>>
  /\ timerState.isRunning
  /\ timerState.mode = "shortBreak"

\* C15: a recomputation that runs in isolation (the rules it read are the
\* rules installed when it replaces them) leaves exactly two rules per
\* configured site when the decision is block, and no rule otherwise.
C15_IsolatedRecomputationReplaces ==
  [][event'.type = "rulesRead" =>
       LET it == pending[First("rules")]
       IN (it.existing = rules) =>
            (IF it.kind = "enable"
             THEN TwoPerSite(rules', it.sites)
             ELSE rules' = {})]_vars

\* the rules of the site list with example.com removed again are installed:
\* none of the seven-site list is left
C15_Witness ==
  /\ event.type = "rulesRead"
  /\ config.blockedSites = <<DEFAULT_BLOCKED_SITES>>
  /\ TwoPerSite(rules, DEFAULT_BLOCKED_SITES)
  /\ pending = <<>>

C17_GetStatePureRead ==
  [][event'.type = "GET_STATE" =>
       /\ response' = <<timerState>>
       /\ timerState' = timerState
       /\ storage' = storage
       /\ alarm' = alarm
       /\ emitted' = <<>>
       /\ notified' = <<>>
       /\ writes' = 0
       /\ recomputes' = 0]_vars

\* a running, partly elapsed countdown has been polled
C17_Witness ==
  /\ event.type = "GET_STATE"
  /\ response = <<timerState>>
  /\ timerState.isRunning
  /\ timerState.timeRemaining < nominalSeconds(timerState.mode)

\* C18: a message with an unrecognized action is answered with
\* {error: 'Unknown action'} and changes nothing.
C18_UnknownActionError ==
  [][event'.type = "PING" =>
       /\ response' = <<[error |-> "Unknown action"]>>
       /\ timerState' = timerState
       /\ storage' = storage
       /\ alarm' = alarm
       /\ emitted' = <<>>
       /\ writes' = 0
       /\ recomputes' = 0]_vars

\* an unknown action was answered while the timer runs
C18_Witness ==
  /\ event.type = "PING"
  /\ response = <<[error |-> "Unknown action"]>>
  /\ timerState.isRunning

\* C19: SWITCH_MODE(m) while not running leaves the stopped full-duration
\* snapshot of m, persists it and emits no record.
C19_SwitchWhileStopped ==
  [][(event'.type = "SWITCH_MODE" /\ ~timerState.isRunning) =>
       /\ timerState' = Stopped(event'.mode)
       /\ storage' = <<timerState'>>
       /\ writes' >= 1
       /\ emitted' = <<>>]_vars

\* the short break was selected and persisted
C19_Witness ==
  /\ event = [type |-> "SWITCH_MODE", mode |-> "shortBreak"]
  /\ timerState = Stopped("shortBreak")
  /\ storage = <<timerState>>
  /\ writes = 1

\* C20: in every reachable state isRunning implies that startedAt is set.
C20_RunningHasStartedAt ==
  timerState.isRunning => timerState.startedAt # Null

\* a running snapshot loaded on activation
C20_Witness ==
  /\ event.type = "loaded"
  /\ timerState.isRunning
  /\ timerState.startedAt # Null

\* C21 as stated: every RESET_TIMER of a run, running or paused, emits
\* exactly one record.
C21_OneRecordPerEndedRun ==
  [][(event'.type = "RESET_TIMER" /\ timerState.startedAt # Null) =>
       Len(emitted') = 1]_vars

\* C21: records are emitted one at a time, by a Complete (completed) and by
\* a RESET_TIMER of a running timer (not completed) and by nothing else;
\* the step that emits ends the run in memory and in the store, so no run
\* emits a second record; a RESET_TIMER of a paused run emits none.
C21_OneRecordWhenRunningEnds ==
  [][/\ Len(emitted') <= 1
     /\ (Len(emitted') = 1) <=>
          (\/ completes' = 1
           \/ event'.type = "RESET_TIMER" /\ timerState.isRunning)
     /\ (Len(emitted') = 1) =>
          (/\ emitted'[1].completed <=> (completes' = 1)
           /\ ~timerState'.isRunning
           /\ storage' = <<timerState'>>)
     /\ (event'.type = "RESET_TIMER" /\ ~timerState.isRunning) =>
          emitted' = <<>>]_vars

\* a run found elapsed on activation was completed and reported once
C21_Witness ==
  /\ event.type = "loaded"
  /\ completes = 1
  /\ Len(emitted) = 1
  /\ emitted[1].completed
  /\ ~timerState.isRunning
  /\ storage = <<timerState>>

\* C23 as stated: when the report request is issued, isRunning is already
\* cleared and the snapshot persisted.
C23_CommittedBeforeReport ==
  [][\A i \in 1..Len(issued') :
       /\ ~issued'[i].ts.isRunning
       /\ issued'[i].storage = <<issued'[i].ts>>]_vars

\* C23: the report request is issued first, while the snapshot is still
\* running, the alarm (if any) still set and nothing of the transition
\* persisted; the transition is committed by the end of the same event.
C23_ReportBeforeCommit ==
  [][\A i \in 1..Len(issued') :
       /\ issued'[i].ts.isRunning
       /\ issued'[i].ts.mode = emitted'[i].session_type
       /\ issued'[i].storage = storage
       /\ issued'[i].alarm = alarm
       /\ ~timerState'.isRunning
       /\ ~alarm'
       /\ timerState'.timeRemaining = nominalSeconds(timerState'.mode)
       /\ storage' = <<timerState'>>]_vars

\* a countdown reached zero on a tick and was reported
C23_Witness ==
  /\ event.type = "tick"
  /\ Len(issued) = 1
  /\ issued[1].ts.isRunning
  /\ issued[1].ts.timeRemaining = 0
  /\ ~timerState.isRunning
  /\ storage = <<timerState>>

\* C26: a notification with requireInteraction is created by every Complete
\* and by nothing else: each step creates as many notifications as it
\* completes runs and as it emits completed records.
C26_NotificationPerComplete ==
  [][/\ Len(notified') = completes'
     /\ Cardinality({i \in 1..Len(emitted') : emitted'[i].completed})
          = completes'
     /\ \A i \in 1..Len(notified') : notified'[i].requireInteraction]_vars

\* a break was completed and notified
C26_Witness ==
  /\ completes = 1
  /\ Len(notified) = 1
  /\ notified[1].requireInteraction
  /\ notified[1].message = messages.shortBreak
  /\ Len(emitted) = 1
  /\ emitted[1].completed

\* C24: whenever a command, a tick or the load on activation has changed
\* the in-memory snapshot, the stored record equals it in every field.
C24_PersistedAfterEveryMutation ==
  [][(/\ event'.type \in {"GET_STATE", "START_TIMER", "PAUSE_TIMER",
                          "RESET_TIMER", "SWITCH_MODE", "PING", "tick",
                          "loaded"}
      /\ timerState' # timerState)
       => storage' = <<timerState'>>]_vars

\* C28: a tick while running with more than one second left lowers
\* timeRemaining by exactly 1, changes no other field, completes nothing and
\* persists the snapshot; after k consecutive ticks of a run timeRemaining
\* is k below its value at the start, mode and startedAt as at the start.
C28_TickDecrementsByOne ==
  [][(event'.type = "tick" /\ timerState.isRunning
        /\ timerState.timeRemaining > 1) =>
       /\ timerState' = [timerState EXCEPT !.timeRemaining = @ - 1]
       /\ storage' = <<timerState'>>
       /\ writes' = 1
       /\ completes' = 0
       /\ emitted' = <<>>
       /\ run' # <<>> =>
            /\ timerState'.timeRemaining =
                 run'[1].after.timeRemaining - run'[1].ticks
            /\ timerState'.mode = run'[1].after.mode
            /\ timerState'.startedAt = run'[1].after.startedAt
            /\ timerState'.isRunning]_vars

\* three consecutive ticks of a run have been counted
C28_Witness ==
  /\ event.type = "tick"
  /\ run # <<>>
  /\ run[1].ticks = 3
  /\ timerState.isRunning
  /\ timerState.timeRemaining = nominalSeconds(timerState.mode) - 3
  /\ storage = <<timerState>>

\* C29: a tick of a run that began with the full duration, delivered when
\* more seconds of wall-clock time have passed since the start than ticks
\* were counted, brings timeRemaining to the reconciled value
\* max(0, nominal - elapsed seconds), completing the run at 0.
C29_TickKeyedByWallClock ==
  [][(/\ event'.type = "tick"
      /\ timerState.isRunning
      /\ run # <<>>
      /\ run[1].fresh
      /\ (now - timerState.startedAt) \div Resolution > run[1].ticks + 1)
       => IF Reconciled(timerState, now) = 0
          THEN completes' = 1
          ELSE timerState'.timeRemaining = Reconciled(timerState, now)]_vars

\* C22: whatever the outcome of a POST, its arrival changes neither the
\* snapshot nor the stored record nor the alarm nor the rule set, starts no
\* recomputation and issues no further POST; each record is POSTed once.
C22_ReportOutcomeIgnored ==
  [][/\ event'.type = "posted" =>
          /\ timerState' = timerState
          /\ storage' = storage
          /\ alarm' = alarm
          /\ rules' = rules
          /\ pending' = pending
          /\ recomputes' = 0
          /\ writes' = 0
          /\ emitted' = <<>>
     /\ event'.type # "posted" =>
          /\ inflight' = inflight + Len(emitted')
          /\ Len(emitted') <= 1]_vars

\* the report of an abandoned run failed; the timer stays reset
C22_Witness ==
  /\ event = Ev("posted", "network_error")
  /\ inflight = 0
  /\ timerState = Stopped("pomodoro")
  /\ storage = <<timerState>>
  /\ ~alarm

\* C30: an alarm event delivered while isRunning is false, after a Pause, a
\* Reset or a Complete, changes no field of the snapshot, persists nothing,
\* emits no record, creates no notification and completes nothing.
C30_LateTickIgnored ==
  [][(event'.type \in {"tick", "lateTick"} /\ ~timerState.isRunning) =>
       /\ timerState' = timerState
       /\ storage' = storage
       /\ alarm' = alarm
       /\ writes' = 0
       /\ emitted' = <<>>
       /\ notified' = <<>>
       /\ completes' = 0]_vars

\* a tick was delivered after the Pause of a partly elapsed run
C30_Witness ==
  /\ event.type = "lateTick"
  /\ ~timerState.isRunning
  /\ timerState.pausedAt # Null
  /\ timerState.timeRemaining < nominalSeconds(timerState.mode)
  /\ writes = 0

\* the snapshot a restarted worker has after loading what was persisted of
\* ts, before resumeTimer
Reloaded(ts) == Spread(DefaultState, Stored(ts))

\* C25: persisting the snapshot and loading it back yields a snapshot equal
\* to it in all five fields.
C25_RoundTrip ==
  /\ DOMAIN Reloaded(timerState) = DOMAIN timerState
  /\ \A f \in DOMAIN timerState : Reloaded(timerState)[f] = timerState[f]

\* C27: in every reachable state mode is a recognized mode and timeRemaining
\* is an integer.
C27_ModeRecognized ==
  /\ timerState.mode \in Modes
  /\ timerState.timeRemaining \notin {NaN, undefinedNumber}

\* Runs under fair ticks: while the 'pomodoroTimer' alarm exists Chrome keeps
\* delivering it (periodInMinutes at line 380), and the worker is not torn
\* down; commands arrive at any time.
NextLive ==
  \/ START_TIMER /\ Detached
  \/ PAUSE_TIMER /\ Detached
  \/ RESET_TIMER /\ Detached
  \/ \E newMode \in Modes : SWITCH_MODE(newMode) /\ Detached
  \/ AlarmTick /\ Detached
  \/ \E d \in {1, Gap} : ClockAdvance(d) /\ Detached

SpecLive == Init /\ [][NextLive]_vars /\ WF_vars(AlarmTick /\ Detached)

\* C31: under fair ticks every running timer is eventually paused, reset or
\* completed by a tick, and the Complete leaves isRunning = false and no
\* alarm.
C31_RunEventuallyCompletes ==
  timerState.isRunning ~>
    \/ event.type \in {"PAUSE_TIMER", "RESET_TIMER"}
    \/ /\ event.type = "tick"
       /\ completes = 1
       /\ ~timerState.isRunning
       /\ ~alarm

\* a long break, started and left alone, was completed by its last tick
C31_Witness ==
  /\ event.type = "tick"
  /\ completes = 1
  /\ ~timerState.isRunning
  /\ ~alarm
  /\ notified # <<>>
  /\ notified[1].message = messages["longBreak"]

\* Overlapping recomputations: an event is handled while the callbacks of
\* earlier updateBlockingRules calls are still outstanding.
Overlapping ==
  /\ Len(pending) + recomputes' <= MaxOverlap
  /\ config' = config
  /\ rules' = rules
  /\ pending' = pending \o [i \in 1..recomputes' |-> SettingsRead(event'.type)]
  /\ inflight' = inflight

NextRace ==
  \/ START_TIMER /\ Overlapping
  \/ PAUSE_TIMER /\ Overlapping
  \/ AlarmTick /\ Overlapping
  \/ SettingsCallback
  \/ RulesCallback
  \/ SaveSetting("blockingEnabled")

SpecRace == Init /\ [][NextRace]_vars

\* C33: once no callback of a recomputation is outstanding, rules are
\* installed iff the block decision holds for the snapshot and the
\* configuration.
C33_RecomputationsConverge ==
  pending = <<>> =>
    (rules # {} <=> Blocks(config, timerState))

\* C32: the load of a running snapshot that resumes leaves a timeRemaining
\* not above the loaded one.
C32_ReconciliationNeverLengthens ==
  [][(/\ event'.type = "loaded"
      /\ Loaded # <<>>
      /\ Loaded[1].isRunning
      /\ completes' = 0)
       => timerState'.timeRemaining <= Loaded[1].timeRemaining]_vars

\* C34: after every command, tick and completed activation the alarm
\* exists iff the in-memory snapshot is running.
C34_AlarmIffRunning ==
  (/\ event.type \in {"GET_STATE", "START_TIMER", "PAUSE_TIMER",
                       "RESET_TIMER", "SWITCH_MODE", "PING", "tick",
                       "loaded"}
   /\ pendingGet = <<>>)
    => (alarm <=> timerState.isRunning)

\* C35: the in-memory snapshot between events, every snapshot passed to
\* sendResponse and every persisted snapshot has timeRemaining >= 1.
C35_NeverZeroBetweenEvents ==
  /\ timerState.timeRemaining >= 1
  /\ storage # <<>> => storage[1].timeRemaining >= 1
  /\ (response # <<>> /\ event.type # "PING") =>
       response[1].timeRemaining >= 1

\* a Complete on a tick left the next mode's full duration in memory and
\* in the store
C35_Witness ==
  /\ event.type = "tick"
  /\ completes = 1
  /\ timerState.mode = "pomodoro"
  /\ timerState.timeRemaining = nominalSeconds("pomodoro")
  /\ storage # <<>>
  /\ storage[1].timeRemaining = nominalSeconds("pomodoro")

\* C36: a snapshot that is not running and has no startedAt has the full
\* duration of its mode and no pausedAt; a partly elapsed countdown is
\* running or has startedAt set.
C36_StoppedIsFull ==
  /\ (~timerState.isRunning /\ timerState.startedAt = Null) =>
       /\ timerState.timeRemaining = nominalSeconds(timerState.mode)
       /\ timerState.pausedAt = Null
  /\ timerState.timeRemaining < nominalSeconds(timerState.mode) =>
       (timerState.isRunning \/ timerState.startedAt # Null)

\* a paused, partly elapsed run was discarded for a long break
C36_Witness ==
  /\ event = Ev("SWITCH_MODE", "longBreak")
  /\ ~timerState.isRunning
  /\ timerState.startedAt = Null
  /\ timerState.pausedAt = Null
  /\ timerState.timeRemaining = nominalSeconds("longBreak")
  /\ response = <<timerState>>

====
